---- MODULE Spec2Model ----
(***************************************************************************)
(* Model of the actix-util error taxonomy: the code registry generated by  *)
(* status_codes! (define.rs), the coded / described error values and the   *)
(* foreign error adapters (define.rs), the boundary responder and its      *)
(* rendering (err.rs), and the paginated result builder (query.rs).        *)
(*                                                                         *)
(* Text outside ASCII is written as its code points, "U+53D1 U+751F":      *)
(* one token per character, separated by blanks.                           *)
(***************************************************************************)
EXTENDS Integers, Sequences, FiniteSets, TLC

VARIABLES
    num,          \* registry probe: the u16 handed to reason_en / reason_cn
    reason,       \* registry probe: [en, cn], each "unasked" or the Option returned
    source,       \* adapters: the foreign error / (code, text) pair being converted
    converted,    \* adapters: Option<ExtraDescError> produced by the last conversion
    responder,    \* err.rs Error: [real_error, status]
    pc,           \* responder: "building" | "rendered" | "panicked"
    response,     \* responder: Option<HttpResponse> returned by error_response
    built_with,   \* history: the StatusCode given to Error::new
    setters,      \* history: number of err / not_find / invalid_data calls, saturating
    output,       \* query.rs QueryOutput: [items, limit, total]
    total_arg     \* history: Option of the value most recently passed to total()

vars == <<num, reason, source, converted, responder, pc, response,
          built_with, setters, output, total_arg>>

---------------------------------------------------------------------------
(* Option<T> *)
None == <<>>
Some(x) == <<x>>
is_some(o) == o # None
unwrap(o) == o[1]

---------------------------------------------------------------------------
(* define.rs: the registry *)

\* u16::MAX, the width of Error(pub u16)
U16Max == 65535
U16 == 0..U16Max

\* The rows of the status_codes! invocation, in source order:
\* <<$num, $konst, $phrase, $phrase_cn>>.
status_codes ==
    <<
       <<1001, "FileNotFound", "file not found", "U+6587 U+4EF6 U+672A U+53D1 U+73B0">>,
       <<1002, "PermissionDenied", "permission denied", "U+64CD U+4F5C U+88AB U+62D2 U+7EDD">>,
       <<1003, "ConnectionRefused", "connection refused", "U+8FDC U+7A0B U+670D U+52A1 U+5668 U+8FDE U+63A5 U+88AB U+62D2 U+7EDD">>,
       <<1004, "ConnectionReset", "connection reset", "U+8FDC U+7A0B U+670D U+52A1 U+5668 U+8FDE U+63A5 U+88AB U+91CD U+7F6E">>,
       <<1005, "ConnectionAborted", "connection aborted", "U+8FDC U+7A0B U+670D U+52A1 U+5668 U+8FDE U+63A5 U+88AB U+4E2D U+6B62">>,
       <<1006, "NotConnected", "not connected", "U+7F51 U+7EDC U+64CD U+4F5C U+5931 U+8D25 U+FF0C U+6CA1 U+6709 U+8FDE U+63A5">>,
       <<1007, "AddrInUse", "address in use", "S o c k e t U+5730 U+5740 U+88AB U+5360 U+7528">>,
       <<1008, "AddrNotAvailable", "address not available", "U+8BF7 U+6C42 U+7684 U+5730 U+5740 U+4E0D U+5B58 U+5728">>,
       <<1009, "BrokenPipe", "broken pipe", "U+64CD U+4F5C U+5931 U+8D25 U+FF0C U+56E0 U+4E3A U+7BA1 U+9053 U+5DF2 U+5173 U+95ED">>,
       <<1010, "AlreadyExists", "entity already exists", "U+6587 U+4EF6 U+5DF2 U+5B58 U+5728">>,
       <<1011, "WouldBlock", "operation would block", "U+64CD U+4F5C U+9700 U+8981 U+963B U+585E U+624D U+80FD U+5B8C U+6210">>,
       <<1012, "InvalidInput", "invalid input parameter", "U+53C2 U+6570 U+9519 U+8BEF">>,
       <<1013, "InvalidData", "invalid data", "U+6570 U+636E U+65E0 U+6548">>,
       <<1014, "TimedOut", "timed out", "U+64CD U+4F5C U+8D85 U+65F6">>,
       <<1015, "WriteZero", "write zero", "U+5199 U+5165 U+65F6 U+8FD4 U+56DE U+7A7A U+6570 U+636E">>,
       <<1016, "Interrupted", "operation interrupted", "U+64CD U+4F5C U+4E2D U+65AD">>,
       <<1017, "Other", "other os error", "U+5176 U+4ED6 I / O U+9519 U+8BEF">>,
       <<1018, "UnexpectedEof", "unexpected end of file", "U+64CD U+4F5C U+9700 U+8981 U+963B U+585E U+624D U+80FD U+5B8C U+6210">>,
       <<2001, "InvalidMessageQuque", "invalid message quque", "U+65E0 U+6548 U+7684 U+6D88 U+606F U+961F U+5217 U+7C7B U+578B">>,
       <<2002, "ConnectionMessageQuqueError", "connection message quque error", "U+8FDE U+63A5 U+6D88 U+606F U+961F U+5217 U+5931 U+8D25">>,
       <<2003, "SubscribeMessageQuqueFail", "subscribe message quque fail", "U+8BA2 U+9605 U+6D88 U+606F U+961F U+5217 U+5931 U+8D25">>,
       <<2004, "FetchMessageFail", "fetch message fail", "U+83B7 U+53D6 U+6D88 U+606F U+5931 U+8D25">>,
       <<2005, "FetchMessageTimeout", "fetch message timeout", "U+83B7 U+53D6 U+6D88 U+606F U+8D85 U+65F6">>,
       <<2006, "InvalidMessageData", "invalid message data", "U+65E0 U+6548 U+7684 U+6D88 U+606F U+683C U+5F0F">>,
       <<2007, "InvalidCommand", "invalid command", "U+65E0 U+6548 U+7684 U+6D88 U+606F U+6307 U+4EE4">>,
       <<2008, "InvalidUseRule", "invalid use rule", "U+65E0 U+6548 U+7684 U+89C4 U+5219">>,
       <<3001, "DataBaseInvalidQuery", "dataBase invalid query", "U+6570 U+636E U+5E93 U+67E5 U+8BE2 U+53C2 U+6570 U+9519 U+8BEF">>,
       <<3002, "DataBaseError", "database error", "U+6570 U+636E U+5E93 U+8FD4 U+56DE U+9519 U+8BEF">>,
       <<3003, "DataBaseNotFound", "result not found", "U+6CA1 U+6709 U+67E5 U+8BE2 U+5230 U+7ED3 U+679C">>,
       <<3101, "InvalidConnection", "DataBase Invalid Connection", "U+6570 U+636E U+8FDE U+63A5 U+65E0 U+6548">>,
       <<4001, "ConnectionDeviceError", "connection device error", "U+8FDE U+63A5 U+8BBE U+5907 U+5931 U+8D25">>,
       <<4002, "ConnectionDeviceTimeout", "connection device timeout", "U+8FDE U+63A5 U+8BBE U+5907 U+8D85 U+65F6">>,
       <<4003, "DeviceAddrInvalid", "device address invalid", "U+8BBE U+5907 U+5730 U+5740 U+65E0 U+6548">>,
       <<4004, "DeviceNotFound", "device not found", "U+8BBE U+5907 U+4E0D U+5B58 U+5728">>,
       <<4005, "InvalidDeviceType", "invalid device type", "U+4E0D U+652F U+6301 U+7684 U+8BBE U+5907 U+7C7B U+578B">>,
       <<4006, "SendDataTimeout", "send data timeout", "U+53D1 U+9001 U+6570 U+636E U+8D85 U+65F6">>,
       <<4007, "SendDataFail", "send data fail", "U+53D1 U+9001 U+6570 U+636E U+5931 U+8D25">>,
       <<4008, "InvalidSendData", "invalid send data", "U+53D1 U+9001 U+6570 U+636E U+65E0 U+6548">>,
       <<4009, "ReceiveDataTimeout", "receive data timeout", "U+63A5 U+6536 U+6570 U+636E U+8D85 U+65F6">>,
       <<4010, "ReceiveDataFail", "receive data fail", "U+63A5 U+6536 U+6570 U+636E U+5931 U+8D25">>,
       <<4011, "ReceiveUnexpectedEof", "receive unexpected eof", "U+8BBE U+5907 U+8FDE U+63A5 U+5F02 U+5E38 U+7ED3 U+675F">>,
       <<4012, "DeviceAlreadyExist", "device already exist", "U+8BBE U+5907 U+5DF2 U+5B58 U+5728">>,
       <<4013, "DeviceNotUsed", "device not used", "U+8BBE U+5907 U+4E0D U+53EF U+7528">>,
       <<4014, "DeviceReportError", "device report error", "U+8BBE U+5907 U+6267 U+884C U+6307 U+4EE4 U+62A5 U+9519">>,
       <<5001, "UnexpectedErrorOccured", "unexpected error occured", "U+53D1 U+751F U+610F U+5916 U+9519 U+8BEF">>,
       <<5002, "ServerRegisterFail", "server register fail", "U+670D U+52A1 U+6CE8 U+518C U+5931 U+8D25">>,
       <<5003, "ConfigurationInvalid", "configuration invalid", "U+914D U+7F6E U+65E0 U+6548">>,
       <<5100, "UnKnowError", "unknow error", "U+672A U+5B9A U+4E49 U+9519 U+8BEF">>,
       <<6001, "RoleTypeError", "role type error", "U+6743 U+9650 U+7C7B U+578B U+4E0D U+5B58 U+5728">>,
       <<7001, "TransInitError", "translate init error", "U+7FFB U+8BD1 U+5668 U+521D U+59CB U+5316 U+9519 U+8BEF">>,
       <<7002, "TransRegisterError", "translate register error", "U+7FFB U+8BD1 U+5668 U+6CE8 U+518C U+9519 U+8BEF">>,
       <<7003, "CheckError", "translate check error", "U+7FFB U+8BD1 c h e c k U+9519 U+8BEF">>,
       <<7004, "TransInnerError", "translate inner error", "U+7FFB U+8BD1 U+5185 U+90E8 U+9519 U+8BEF">>
    >>

\* The section comments of the invocation: the rows declared under each, and
\* the band the comment announces.
sections ==
    << [name |-> "I/O",       first |-> 1,  last |-> 18, lo |-> 1001, hi |-> 2000],
       [name |-> "Message",   first |-> 19, last |-> 26, lo |-> 2001, hi |-> 3000],
       [name |-> "DataBase",  first |-> 27, last |-> 30, lo |-> 3001, hi |-> 4000],
       [name |-> "Device",    first |-> 31, last |-> 44, lo |-> 4001, hi |-> 5000],
       [name |-> "System",    first |-> 45, last |-> 48, lo |-> 5001, hi |-> 6000],
       [name |-> "Token",     first |-> 49, last |-> 49, lo |-> 6001, hi |-> 7000],
       [name |-> "translate", first |-> 50, last |-> 53, lo |-> 7001, hi |-> 7999] >>

\* `pub const $konst: Error = Error($num);`
Konst(konst) ==
    LET i == CHOOSE j \in 1..Len(status_codes) : status_codes[j][2] = konst
    IN  status_codes[i][1]

FileNotFound == Konst("FileNotFound")
PermissionDenied == Konst("PermissionDenied")
ConnectionRefused == Konst("ConnectionRefused")
ConnectionReset == Konst("ConnectionReset")
ConnectionAborted == Konst("ConnectionAborted")
NotConnected == Konst("NotConnected")
AddrInUse == Konst("AddrInUse")
AddrNotAvailable == Konst("AddrNotAvailable")
BrokenPipe == Konst("BrokenPipe")
AlreadyExists == Konst("AlreadyExists")
WouldBlock == Konst("WouldBlock")
InvalidInput == Konst("InvalidInput")
InvalidData == Konst("InvalidData")
TimedOut == Konst("TimedOut")
WriteZero == Konst("WriteZero")
Interrupted == Konst("Interrupted")
Other == Konst("Other")
UnexpectedEof == Konst("UnexpectedEof")
InvalidMessageData == Konst("InvalidMessageData")
InvalidCommand == Konst("InvalidCommand")
DataBaseInvalidQuery == Konst("DataBaseInvalidQuery")
DataBaseError == Konst("DataBaseError")
DataBaseNotFound == Konst("DataBaseNotFound")
ReceiveDataFail == Konst("ReceiveDataFail")
ConfigurationInvalid == Konst("ConfigurationInvalid")
UnKnowError == Konst("UnKnowError")

\* A Rust match takes the first arm whose pattern matches.
FirstArm(n) ==
    LET hits == {i \in 1..Len(status_codes) : status_codes[i][1] = n}
    IN  IF hits = {} THEN 0
        ELSE CHOOSE i \in hits : \A j \in hits : i <= j

\* Variant: the catch-all arm answers with the "unknow error" phrase.
canonical_reason_en_catch_all(n) ==
    IF FirstArm(n) = 0 THEN Some("unknow error") ELSE Some(status_codes[FirstArm(n)][3])

canonical_reason_en(n) ==
    IF FirstArm(n) = 0 THEN None ELSE Some(status_codes[FirstArm(n)][3])

canonical_reason_cn(n) ==
    IF FirstArm(n) = 0 THEN None ELSE Some(status_codes[FirstArm(n)][4])

\* Error(pub u16) is modelled by its code.
reason_en(err) == canonical_reason_en(err)
reason_cn(err) == canonical_reason_cn(err)

---------------------------------------------------------------------------
(* define.rs: coded error -> described error *)

\* Variant: the description is not stored.
from_desc_dropped(self, desc) == [err |-> self, desc |-> ""]

\* Error::from_desc
from_desc(self, desc) == [err |-> self, desc |-> desc]

\* impl From<Error> for ExtraDescError: desc is String::new()
ExtraDescError_from(err) == [err |-> err, desc |-> ""]

---------------------------------------------------------------------------
(* define.rs: foreign error adapters *)

\* The std::io::ErrorKind values the match names, and some it does not
\* (ErrorKind is #[non_exhaustive]).
NamedIoKinds ==
    { "NotFound", "PermissionDenied", "ConnectionRefused", "ConnectionReset",
      "ConnectionAborted", "NotConnected", "AddrInUse", "AddrNotAvailable",
      "BrokenPipe", "AlreadyExists", "WouldBlock", "InvalidInput",
      "InvalidData", "TimedOut", "WriteZero", "Interrupted", "Other",
      "UnexpectedEof" }
UnnamedIoKinds == { "Unsupported", "OutOfMemory", "HostUnreachable", "StorageFull" }
IoKinds == NamedIoKinds \cup UnnamedIoKinds

\* Rendered messages (to_string()) of foreign errors.
Msgs == { "", "it's error", "No such file or directory (os error 2)" }

\* A std::io::Error: its kind() and its to_string().
IoErrors == [kind : IoKinds, rendered : Msgs]

\* Variant: the catch-all arm answers Other ("other os error").
io_kind_error_other(kind) ==
    IF kind \in NamedIoKinds
    THEN Konst(IF kind = "NotFound" THEN "FileNotFound" ELSE kind)
    ELSE Other

\* the match of From<IoError>
io_kind_error(kind) ==
    CASE kind = "NotFound"          -> FileNotFound
      [] kind = "PermissionDenied"  -> PermissionDenied
      [] kind = "ConnectionRefused" -> ConnectionRefused
      [] kind = "ConnectionReset"   -> ConnectionReset
      [] kind = "ConnectionAborted" -> ConnectionAborted
      [] kind = "NotConnected"      -> NotConnected
      [] kind = "AddrInUse"         -> AddrInUse
      [] kind = "AddrNotAvailable"  -> AddrNotAvailable
      [] kind = "BrokenPipe"        -> BrokenPipe
      [] kind = "AlreadyExists"     -> AlreadyExists
      [] kind = "WouldBlock"        -> WouldBlock
      [] kind = "InvalidInput"      -> InvalidInput
      [] kind = "InvalidData"       -> InvalidData
      [] kind = "TimedOut"          -> TimedOut
      [] kind = "WriteZero"         -> WriteZero
      [] kind = "Interrupted"       -> Interrupted
      [] kind = "Other"             -> Other
      [] kind = "UnexpectedEof"     -> UnexpectedEof
      [] OTHER                      -> UnKnowError

\* impl From<IoError> for ExtraDescError: `error.into()`
from_io_error(e) == ExtraDescError_from(io_kind_error(e.kind))

\* impl From<serde_json::Error> for ExtraDescError
from_serde_json_error(e) == from_desc(InvalidMessageData, e.rendered)

\* impl From<toml::de::Error> for ExtraDescError
from_toml_error(e) == from_desc(ConfigurationInvalid, e.rendered)

\* Decode errors of serde_json and toml: only to_string() is read.
DecodeErrors == [rendered : Msgs]

\* diesel::result::Error.  DatabaseError(kind, info) renders as info.message(),
\* QueryBuilderError(inner) as inner.to_string(); the other variants have
\* a rendering of their own.
DieselOtherVariants ==
    { "InvalidCString", "DeserializationError", "SerializationError",
      "RollbackTransaction", "AlreadyInTransaction" }
DieselErrors ==
    { [variant |-> "DatabaseError", kind |-> k,
       info |-> [message |-> m, details |-> d], rendered |-> m] :
         k \in {"UniqueViolation", "ForeignKeyViolation"}, m \in Msgs,
         d \in {"", "Key (id)=(1) already exists."} }
    \cup { [variant |-> "NotFound", rendered |-> r] : r \in {"NotFound", "Record not found"} }
    \cup { [variant |-> "QueryBuilderError", inner |-> [rendered |-> m],
            rendered |-> m] : m \in Msgs }
    \cup { [variant |-> v, rendered |-> m] : v \in DieselOtherVariants, m \in Msgs }

\* Variant: no arm for NotFound, which falls to the catch-all.
from_diesel_error_no_not_found(error) ==
    CASE error.variant = "DatabaseError" ->
            from_desc(DataBaseError, error.info.message)
      [] error.variant = "QueryBuilderError" ->
            from_desc(DataBaseInvalidQuery, error.inner.rendered)
      [] OTHER ->
            from_desc(UnKnowError, error.rendered)

\* impl From<DieselError> for ExtraDescError
from_diesel_error(error) ==
    CASE error.variant = "DatabaseError" ->
            from_desc(DataBaseError, error.info.message)
      [] error.variant = "NotFound" ->
            from_desc(DataBaseNotFound, error.rendered)
      [] error.variant = "QueryBuilderError" ->
            from_desc(DataBaseInvalidQuery, error.inner.rendered)
      [] OTHER ->
            from_desc(UnKnowError, error.rendered)

\* Coded errors call sites hand to from_desc / into(): registered ones and
\* codes the table does not list.
SomeCodes == { FileNotFound, InvalidCommand, InvalidMessageData, DataBaseNotFound,
              ReceiveDataFail, UnKnowError, 0, 9999, U16Max }

FromIoError(e) ==
    /\ source' = [from |-> "io", e |-> e]
    /\ converted' = Some(from_io_error(e))
    /\ UNCHANGED <<num, reason, responder, pc, response, built_with, setters,
                   output, total_arg>>

FromSerdeJsonError(e) ==
    /\ source' = [from |-> "serde_json", e |-> e]
    /\ converted' = Some(from_serde_json_error(e))
    /\ UNCHANGED <<num, reason, responder, pc, response, built_with, setters,
                   output, total_arg>>

FromTomlError(e) ==
    /\ source' = [from |-> "toml", e |-> e]
    /\ converted' = Some(from_toml_error(e))
    /\ UNCHANGED <<num, reason, responder, pc, response, built_with, setters,
                   output, total_arg>>

FromDieselError(e) ==
    /\ source' = [from |-> "diesel", e |-> e]
    /\ converted' = Some(from_diesel_error(e))
    /\ UNCHANGED <<num, reason, responder, pc, response, built_with, setters,
                   output, total_arg>>

FromError(c) ==
    /\ source' = [from |-> "error", e |-> [err |-> c]]
    /\ converted' = Some(ExtraDescError_from(c))
    /\ UNCHANGED <<num, reason, responder, pc, response, built_with, setters,
                   output, total_arg>>

FromDesc(c, s) ==
    /\ source' = [from |-> "from_desc", e |-> [err |-> c, desc |-> s]]
    /\ converted' = Some(from_desc(c, s))
    /\ UNCHANGED <<num, reason, responder, pc, response, built_with, setters,
                   output, total_arg>>

---------------------------------------------------------------------------
(* define.rs: registry lookups *)

ReasonEn ==
    /\ reason' = [reason EXCEPT !.en = Some(reason_en(num))]
    /\ UNCHANGED <<num, source, converted, responder, pc, response, built_with,
                   setters, output, total_arg>>

ReasonCn ==
    /\ reason' = [reason EXCEPT !.cn = Some(reason_cn(num))]
    /\ UNCHANGED <<num, source, converted, responder, pc, response, built_with,
                   setters, output, total_arg>>

---------------------------------------------------------------------------
(* err.rs: the boundary responder *)

\* actix_web::http::StatusCode, a wrapper of the numeric status
StatusCode(n) == [code |-> n]
as_u16(s) == s.code
INTERNAL_SERVER_ERROR == StatusCode(500)
StatusCodes == { StatusCode(400), StatusCode(404), INTERNAL_SERVER_ERROR }

\* A call either returns a value or panics.
Returned(x) == [panicked |-> FALSE, value |-> Some(x)]
Panicked == [panicked |-> TRUE, value |-> None]

\* Option::expect
expect(o) == IF is_some(o) THEN Returned(unwrap(o)) ELSE Panicked

\* Variant: err_type is taken from reason_cn.
ErrorWrapper_new_from_error_cn(err) ==
    IF is_some(err.real_error)
    THEN LET real_error == unwrap(err.real_error)
             cn == expect(reason_cn(real_error.err))
         IN  IF cn.panicked THEN Panicked
             ELSE Returned([status  |-> as_u16(err.status),
                            details |-> << [err_type |-> unwrap(cn.value),
                                            desc     |-> real_error.desc] >>])
    ELSE Returned([status |-> as_u16(err.status), details |-> << >>])

\* ErrorWrapper::new_from_error
ErrorWrapper_new_from_error(err) ==
    IF is_some(err.real_error)
    THEN LET real_error == unwrap(err.real_error)
             en == expect(reason_en(real_error.err))
         IN  IF en.panicked THEN Panicked
             ELSE Returned([status  |-> as_u16(err.status),
                            details |-> << [err_type |-> unwrap(en.value),
                                            desc     |-> real_error.desc] >>])
    ELSE Returned([status |-> as_u16(err.status), details |-> << >>])

\* ErrorOutTpl::new_from_error
ErrorOutTpl_new_from_error(err) ==
    LET error == ErrorWrapper_new_from_error(err)
    IN  IF error.panicked THEN Panicked
        ELSE Returned([error |-> unwrap(error.value)])

\* Error::new
Error_new(code) == [real_error |-> None, status |-> code]

\* Error::err
err(self, e) == [self EXCEPT !.real_error = Some(e)]

\* Variant: not_find also sets the status to 404.
not_find_sets_status(self, msg) ==
    [self EXCEPT !.real_error = Some(from_desc(DataBaseNotFound, msg)),
                 !.status = StatusCode(404)]

\* Error::not_find
not_find(self, msg) ==
    [self EXCEPT !.real_error = Some(from_desc(DataBaseNotFound, msg))]

\* Error::invalid_data
invalid_data(self, msg) ==
    [self EXCEPT !.real_error = Some(from_desc(InvalidMessageData, msg))]

\* ResponseError::status_code
status_code(self) == self.status

\* HttpResponse::build(status).json(json!(tpl))
build_json(status, tpl) ==
    IF tpl.panicked THEN Panicked
    ELSE Returned([status |-> status, body |-> unwrap(tpl.value)])

\* The description of the fallback error built by error_response.
FallbackDesc == "U+53D1 U+751F U+610F U+5916 U+9519 U+8BEF"

\* Variant: no fallback error; the responder is rendered as it is.
error_response_no_fallback(self) ==
    build_json(status_code(self), ErrorOutTpl_new_from_error(self))

\* ResponseError::error_response
error_response(self) ==
    LET code == status_code(self)
    IN  IF is_some(self.real_error)
        THEN build_json(code, ErrorOutTpl_new_from_error(self))
        ELSE LET std_err == 5001
                 err_ext == [err |-> std_err, desc |-> FallbackDesc]
                 error   == [status |-> code, real_error |-> Some(err_ext)]
             IN  build_json(code, ErrorOutTpl_new_from_error(error))

\* impl From<Utf8Error> for Error, impl From<std::io::Error> for Error
Error_from(error) == invalid_data(Error_new(INTERNAL_SERVER_ERROR), error.rendered)

\* Described errors handed to Error::err.
ExtraDescErrors == [err : SomeCodes, desc : Msgs]

\* Number of setter calls the history distinguishes (it saturates there).
MaxCalls == 2
Called(op, code, desc) ==
    [n |-> IF setters.n < MaxCalls THEN setters.n + 1 ELSE MaxCalls,
     op |-> op, code |-> code, desc |-> desc]
NoCall == [n |-> 0, op |-> "none", code |-> 0, desc |-> ""]

New(code) ==
    /\ responder' = Error_new(code)
    /\ pc' = "building"
    /\ response' = None
    /\ built_with' = code
    /\ setters' = NoCall
    /\ UNCHANGED <<num, reason, source, converted, output, total_arg>>

From(error) ==
    /\ responder' = Error_from(error)
    /\ pc' = "building"
    /\ response' = None
    /\ built_with' = INTERNAL_SERVER_ERROR
    /\ setters' = [NoCall EXCEPT !.n = 1, !.op = "invalid_data",
                                 !.desc = error.rendered]
    /\ UNCHANGED <<num, reason, source, converted, output, total_arg>>

Err(e) ==
    /\ pc \in {"building", "rendered"}
    /\ responder' = err(responder, e)
    /\ pc' = "building"
    /\ response' = None
    /\ setters' = Called("err", e.err, e.desc)
    /\ UNCHANGED <<num, reason, source, converted, built_with, output, total_arg>>

NotFind(msg) ==
    /\ pc \in {"building", "rendered"}
    /\ responder' = not_find(responder, msg)
    /\ pc' = "building"
    /\ response' = None
    /\ setters' = Called("not_find", 0, msg)
    /\ UNCHANGED <<num, reason, source, converted, built_with, output, total_arg>>

InvalidDataMsg(msg) ==
    /\ pc \in {"building", "rendered"}
    /\ responder' = invalid_data(responder, msg)
    /\ pc' = "building"
    /\ response' = None
    /\ setters' = Called("invalid_data", 0, msg)
    /\ UNCHANGED <<num, reason, source, converted, built_with, output, total_arg>>

ErrorResponse ==
    /\ pc \in {"building", "rendered"}
    /\ LET r == error_response(responder)
       IN  /\ pc' = IF r.panicked THEN "panicked" ELSE "rendered"
           /\ response' = r.value
    /\ UNCHANGED <<num, reason, source, converted, responder, built_with, setters,
                   output, total_arg>>

---------------------------------------------------------------------------
(* query.rs: QueryOutput<T> *)

MaxItems == 3
MaxLimit == 2
MaxTotal == 4
Elems == {"a", "b"}
RECURSIVE Vecs(_)
Vecs(n) == IF n = 0 THEN { << >> }
           ELSE Vecs(n - 1) \cup { Append(v, x) : v \in Vecs(n - 1), x \in Elems }

\* #[derive(Default)]
QueryOutput_default == [items |-> << >>, limit |-> 0, total |-> 0]

\* QueryOutput::items
items(self, v) == [self EXCEPT !.total = Len(v), !.items = v]

\* QueryOutput::limit
limit(self, n) == [self EXCEPT !.limit = n]

\* QueryOutput::total
total(self, count) == [self EXCEPT !.total = count]

Items(v) ==
    /\ output' = items(output, v)
    /\ UNCHANGED <<num, reason, source, converted, responder, pc, response,
                   built_with, setters, total_arg>>

Limit(n) ==
    /\ output' = limit(output, n)
    /\ UNCHANGED <<num, reason, source, converted, responder, pc, response,
                   built_with, setters, total_arg>>

Total(count) ==
    /\ output' = total(output, count)
    /\ total_arg' = Some(count)
    /\ UNCHANGED <<num, reason, source, converted, responder, pc, response,
                   built_with, setters>>

---------------------------------------------------------------------------
(* Specifications: one per component; each leaves the other components at
   rest in their initial values. *)

RegistryAtRest == num = 0 /\ reason = [en |-> None, cn |-> None]
AdaptersAtRest == source = [from |-> "none"] /\ converted = None
ResponderAtRest ==
    /\ responder = Error_new(INTERNAL_SERVER_ERROR)
    /\ built_with = INTERNAL_SERVER_ERROR
    /\ pc = "building"
    /\ response = None
    /\ setters = NoCall
QueryAtRest == output = QueryOutput_default /\ total_arg = None

\* Registry lookups over every u16.
InitRegistry ==
    /\ num \in U16
    /\ reason = [en |-> None, cn |-> None]
    /\ AdaptersAtRest /\ ResponderAtRest /\ QueryAtRest
NextRegistry == ReasonEn \/ ReasonCn
SpecRegistry == InitRegistry /\ [][NextRegistry]_vars

\* Described errors and the foreign error adapters.
InitAdapters ==
    /\ source = [from |-> "none"]
    /\ converted = None
    /\ RegistryAtRest /\ ResponderAtRest /\ QueryAtRest
NextAdapters ==
    \/ \E e \in IoErrors : FromIoError(e)
    \/ \E e \in DecodeErrors : FromSerdeJsonError(e)
    \/ \E e \in DecodeErrors : FromTomlError(e)
    \/ \E e \in DieselErrors : FromDieselError(e)
    \/ \E c \in SomeCodes : FromError(c)
    \/ \E c \in SomeCodes, s \in Msgs : FromDesc(c, s)
SpecAdapters == InitAdapters /\ [][NextAdapters]_vars

\* The boundary responder, from Error::new(code).
InitResponder ==
    /\ \E code \in StatusCodes :
          /\ responder = Error_new(code)
          /\ built_with = code
    /\ pc = "building"
    /\ response = None
    /\ setters = NoCall
    /\ RegistryAtRest /\ AdaptersAtRest /\ QueryAtRest
NextResponder ==
    \/ \E code \in StatusCodes : New(code)
    \/ \E error \in DecodeErrors : From(error)
    \/ \E e \in ExtraDescErrors : Err(e)
    \/ \E msg \in Msgs : NotFind(msg)
    \/ \E msg \in Msgs : InvalidDataMsg(msg)
    \/ ErrorResponse
SpecResponder == InitResponder /\ [][NextResponder]_vars

\* The paginated result builder, from QueryOutput::default().
InitQuery ==
    /\ output = QueryOutput_default
    /\ total_arg = None
    /\ RegistryAtRest /\ AdaptersAtRest /\ ResponderAtRest
NextQuery ==
    \/ \E v \in Vecs(MaxItems) : Items(v)
    \/ \E n \in 0..MaxLimit : Limit(n)
    \/ \E count \in 0..MaxTotal : Total(count)
SpecQuery == InitQuery /\ [][NextQuery]_vars

---------------------------------------------------------------------------
(* Properties *)

Rendered == pc = "rendered"
Payload == unwrap(response).body.error

\* The code and the description a setter call attaches: err attaches its
\* argument, not_find "result not found" (3003), invalid_data "invalid
\* message data" (2006).
AttachedCode ==
    CASE setters.op = "err"          -> setters.code
      [] setters.op = "not_find"     -> 3003
      [] setters.op = "invalid_data" -> 2006

\* C1: rendering a responder built with status S whose most recently attached
\* error is (X, D) yields transport status S and a payload with status S as a
\* number and exactly one detail, whose err_type is the English reason of X
\* and whose desc is D.
RenderAttachedRoundTrip ==
    (Rendered /\ setters.op # "none") =>
        /\ unwrap(response).status = built_with
        /\ Payload.status = built_with.code
        /\ Len(Payload.details) = 1
        /\ is_some(reason_en(AttachedCode))
        /\ Payload.details[1].err_type = unwrap(reason_en(AttachedCode))
        /\ setters.op = "not_find" => Payload.details[1].err_type = "result not found"
        /\ setters.op = "invalid_data" =>
              Payload.details[1].err_type = "invalid message data"
        /\ Payload.details[1].desc = setters.desc

RenderAttachedWitness ==
    /\ Rendered
    /\ setters.op = "err"
    /\ setters.code = 1001
    /\ setters.desc = "it's error"
    /\ built_with = StatusCode(404)

\* C2: rendering a responder to which no error was ever attached yields its
\* status and exactly one detail, the fallback ("unexpected error occured",
\* the fixed description); no rendered payload has an empty details array.
RenderFallback ==
    /\ (Rendered /\ setters.op = "none") =>
          response = Some([status |-> built_with,
                           body |-> [error |->
                              [status  |-> built_with.code,
                               details |-> << [err_type |-> "unexpected error occured",
                                               desc |-> "U+53D1 U+751F U+610F U+5916 U+9519 U+8BEF"] >>]]])
    /\ Rendered => Len(Payload.details) >= 1

RenderFallbackWitness ==
    /\ Rendered
    /\ setters.op = "none"
    /\ responder.real_error = None
    /\ built_with = StatusCode(500)

\* C3: error_response never panics, whatever err / not_find / invalid_data
\* calls preceded it, an attached unregistered code included.
RenderNeverPanics == pc # "panicked"

\* C9: the transport status is the one given to Error::new: status_code()
\* returns it after any setter calls, and a rendered response carries it as
\* transport status and as payload status.
StatusFixedAtConstruction ==
    /\ status_code(responder) = built_with
    /\ Rendered =>
          /\ unwrap(response).status = built_with
          /\ Payload.status = built_with.code

StatusFixedWitness ==
    /\ Rendered
    /\ setters.n >= 2
    /\ setters.op = "not_find"
    /\ built_with = StatusCode(400)

IoConverted == source.from = "io" /\ is_some(converted)

\* The kind -> code table of the I/O adapter.
IoCodeOfKind ==
    [k \in NamedIoKinds \ {"Other"} |->
        CASE k = "NotFound"          -> 1001
          [] k = "PermissionDenied"  -> 1002
          [] k = "ConnectionRefused" -> 1003
          [] k = "ConnectionReset"   -> 1004
          [] k = "ConnectionAborted" -> 1005
          [] k = "NotConnected"      -> 1006
          [] k = "AddrInUse"         -> 1007
          [] k = "AddrNotAvailable"  -> 1008
          [] k = "BrokenPipe"        -> 1009
          [] k = "AlreadyExists"     -> 1010
          [] k = "WouldBlock"        -> 1011
          [] k = "InvalidInput"      -> 1012
          [] k = "InvalidData"       -> 1013
          [] k = "TimedOut"          -> 1014
          [] k = "WriteZero"         -> 1015
          [] k = "Interrupted"       -> 1016
          [] k = "UnexpectedEof"     -> 1018]

\* C4: the I/O adapter always yields a described error; the seventeen
\* distinguished kinds map to their codes, 1017 is produced only for kind
\* Other, and every other kind yields 5100, outside the band 1001..2000.
IoKindMapping ==
    source.from = "io" =>
        /\ is_some(converted)
        /\ LET kind == source.e.kind
               code == unwrap(converted).err
           IN  /\ kind \in DOMAIN IoCodeOfKind => code = IoCodeOfKind[kind]
               /\ code = 1017 => kind = "Other"
               /\ kind \notin (DOMAIN IoCodeOfKind \cup {"Other"}) =>
                     /\ code = 5100
                     /\ ~(1001 <= code /\ code <= 2000)

IoKindWitness ==
    /\ IoConverted
    /\ source.e.kind = "Unsupported"
    /\ unwrap(converted).err = 5100

\* C5: the described error the I/O adapter produces carries the I/O error's
\* rendered message as description.
IoDescIsRenderedMessage ==
    IoConverted => unwrap(converted).desc = source.e.rendered

\* C6: the persistence adapter always yields a described error: NotFound ->
\* 3003 with the rendered message, DatabaseError -> 3002 with the database's
\* message, QueryBuilderError -> 3001 with the inner error's message, every
\* other variant -> 5100 with the rendered message.
DieselMapping ==
    source.from = "diesel" =>
        /\ is_some(converted)
        /\ LET error == source.e
               out == unwrap(converted)
           IN  CASE error.variant = "NotFound" ->
                       out = [err |-> 3003, desc |-> error.rendered]
                 [] error.variant = "DatabaseError" ->
                       out = [err |-> 3002, desc |-> error.info.message]
                 [] error.variant = "QueryBuilderError" ->
                       out = [err |-> 3001, desc |-> error.inner.rendered]
                 [] OTHER ->
                       out = [err |-> 5100, desc |-> error.rendered]

DieselWitness ==
    /\ source.from = "diesel"
    /\ source.e.variant = "NotFound"
    /\ converted = Some([err |-> 3003, desc |-> "Record not found"])

\* C8: c.from_desc(s) has description s, unaltered, and code c, for registered
\* and unregistered c alike.
FromDescFaithful ==
    source.from = "from_desc" =>
        /\ is_some(converted)
        /\ unwrap(converted).desc = source.e.desc
        /\ unwrap(converted).err = source.e.err

FromDescWitness ==
    /\ source.from = "from_desc"
    /\ source.e.err = 9999
    /\ source.e.desc = "No such file or directory (os error 2)"
    /\ is_some(converted)

\* The codes the table lists, and the band the rows of each section are to
\* lie in.
Listed == { status_codes[i][1] : i \in 1..Len(status_codes) }
BandOf ==
    [s \in {"I/O", "Message", "DataBase", "Device", "System", "Token", "translate"} |->
        CASE s = "I/O"       -> [lo |-> 1001, hi |-> 2000]
          [] s = "Message"   -> [lo |-> 2001, hi |-> 3000]
          [] s = "DataBase"  -> [lo |-> 3001, hi |-> 4000]
          [] s = "Device"    -> [lo |-> 4001, hi |-> 5000]
          [] s = "System"    -> [lo |-> 5001, hi |-> 6000]
          [] s = "Token"     -> [lo |-> 6001, hi |-> 7000]
          [] s = "translate" -> [lo |-> 7001, hi |-> 8000]]
TableUnique ==
    \A i, j \in 1..Len(status_codes) :
        status_codes[i][1] = status_codes[j][1] => i = j
TableInBands ==
    /\ \A i \in 1..Len(status_codes) :
          \E k \in 1..Len(sections) : sections[k].first <= i /\ i <= sections[k].last
    /\ \A k \in 1..Len(sections) : \A i \in sections[k].first..sections[k].last :
          /\ i \in 1..Len(status_codes)
          /\ BandOf[sections[k].name].lo <= status_codes[i][1]
          /\ status_codes[i][1] <= BandOf[sections[k].name].hi
Answer(asked) ==
    IF num \in Listed
    THEN is_some(unwrap(asked)) /\ unwrap(unwrap(asked)) # ""
    ELSE unwrap(asked) = None

\* C7: for every u16, reason_en and reason_cn return Some of a non-empty
\* string when the table lists the code and None when it does not; no code
\* is listed twice and every row lies in the band of its section.
RegistryLookupTotal ==
    /\ TableUnique
    /\ TableInBands
    /\ is_some(reason.en) => Answer(reason.en)
    /\ is_some(reason.cn) => Answer(reason.cn)

RegistryWitness ==
    /\ num = 7004
    /\ reason.en = Some(Some("translate inner error"))
    /\ is_some(reason.cn)

\* C10: total is the value most recently passed to total() when there was
\* such a call, and the number of items held otherwise.
TotalIsExplicitOrItemCount ==
    IF is_some(total_arg)
    THEN output.total = unwrap(total_arg)
    ELSE output.total = Len(output.items)
====
